---- MODULE Spec2Model ----
(***************************************************************************)
(* Model of src/userbase-server/server.js: the main WebSocket channel       *)
(* (wss.on('connection') and its message handler), the heartbeat sweep     *)
(* (ping) and the internal notify-transaction endpoint.                     *)
(*                                                                          *)
(* The collaborators imported by server.js (./ws connections and its rate   *)
(* limiter, ./user, ./db) are not part of the source at hand; the pieces of *)
(* them the model needs are written from the specification's description.  *)
(***************************************************************************)
EXTENDS Integers, Sequences, FiniteSets, Bags, TLC

(***************************************************************************)
(* Program constants                                                        *)
(***************************************************************************)
ONE_KB == 1024

FOUR_HUNDRED_KB == 400 * ONE_KB

FIVE_KB == 5 * ONE_KB

RetryDelay == 1000

\* requests admitted per rate-limiter window (value lives in ./ws)
Capacity == 2

(***************************************************************************)
(* Bounds of the model                                                      *)
(***************************************************************************)
\* sockets of the registry specification
NumSockets == 2
\* requests whose asynchronous handler may be in flight at once
MaxPending == 1
\* committed transactions of the database
MaxSeq == 1
\* counted requests tracked beyond the limiter's capacity
MaxOver == 1
\* calls in flight at once where requests overlap
MaxOverlap == 2
\* committed transactions where writers race
MaxLog == 2

Sockets == 1 .. NumSockets
ProtoSockets == {1}
\* accounts and client identifiers
Users == {"u1", "u2"}
Clients == {"c1", "c2"}
Pairs == {<<"u1", "c1">>, <<"u1", "c2">>, <<"u2", "c1">>}
ProtoPairs == {<<"u1", "c1">>}
NoPair == <<>>
\* values a validation message, or a client's answer to it, may take
Messages == {"m1", "m2"}
\* the validation message the server issues (the other value is a wrong answer)
Issued == {"m1"}
\* request identifiers; NoId is a request that carries none
RequestIds == {"r1", "r2"}
NoId == "none"

VARIABLES
  sockState,     \* "new" | "open" | "closing" (terminate() called) | "closed"
  sockPair,      \* <<userId, clientId>> the socket authenticated with
  hasHandlers,   \* register returned a connection: close/message handlers attached
  registry,      \* sockets holding a live entry of the connection registry
  isAlive,       \* ws.isAlive
  keyValidated,  \* conn.keyValidated
  used,          \* the limiter's count of requests in the current window
  vmsg,          \* validationMessage of the connection: {} or {m}
  dbOpen,        \* the connection has the database open
  pending,       \* requests whose asynchronous handler has not completed yet
  seqNo,         \* latest committed sequence number of the database
  quiet,         \* "fresh" | "probed" | "heard": traffic since the last sweep
  fp,            \* stage of a forgot-password socket ("none" on the main channel)
  log,           \* sequence numbers of the committed transactions, in commit order
  bundleSeqNo,   \* sequence number of the database's current bundle
  ev             \* what the last step received, called and sent

vars == <<sockState, sockPair, hasHandlers, registry, isAlive, keyValidated,
          used, vmsg, dbOpen, pending, seqNo, quiet, fp, log, bundleSeqNo, ev>>

(***************************************************************************)
(* Frames                                                                   *)
(***************************************************************************)
ActionNames == {"Pong", "SignOut", "ValidateKey", "UpdateUser", "DeleteUser",
                "OpenDatabase", "Insert", "Update", "Delete",
                "BatchTransaction", "Bundle", "GetPasswordSalts", "Frobnicate"}

\* the sizes on either side of the ceiling
Sizes == {FOUR_HUNDRED_KB, FOUR_HUNDRED_KB + 1}

\* params is {} when the request has no params object, {m} when it carries
\* params.validationMessage = m; n is {k} when params carries the number k as
\* reopenAtSeqNo (OpenDatabase) or seqNo (Bundle), {} when it carries neither
SomeParams == {CHOOSE m \in Messages : TRUE}

Bodies ==
  [json : {"invalid", "null"}, action : {"none"}, params : {{}},
   requestId : {NoId}, n : {{}}]
  \cup [json : {"object"}, action : {"ValidateKey"},
        params : {{}} \cup {{m} : m \in Messages}, requestId : {NoId}, n : {{}}]
  \cup [json : {"object"}, action : ActionNames \ {"ValidateKey"},
        params : {{}, SomeParams}, requestId : {NoId}, n : {{}}]

\* bodies sent at both sizes; the others are sent at the ceiling
BoundaryBodies ==
  {b \in Bodies : /\ b.action \in {"none", "Pong", "ValidateKey", "Insert"}
                  /\ b.json # "null"
                  /\ b.action \in {"Pong", "Insert"} => b.params # {}}

Frame(z, b) ==
  [size |-> z, json |-> b.json, action |-> b.action, params |-> b.params,
   requestId |-> b.requestId, n |-> b.n]

Frames ==
  {Frame(FOUR_HUNDRED_KB, b) : b \in Bodies}
  \cup {Frame(z, b) : z \in Sizes, b \in BoundaryBodies}

\* frames that end before the rate limiter is reached
UncountedFrames ==
  {f \in Frames : f.size > FOUR_HUNDRED_KB \/ f.json # "object" \/ f.action = "Pong"}

(***************************************************************************)
(* Outbound frames                                                          *)
(***************************************************************************)
Out(to, route, status, retryDelay, seq) ==
  [to |-> to, route |-> route, status |-> status, retryDelay |-> retryDelay, seqNo |-> seq,
   requestId |-> NoId]

Plain(to, text) == Out(to, "plain", text, 0, 0)

Response(to, action, status) == Out(to, action, status, 0, 0)

TooManyRequests(to, action) == Out(to, action, "Too Many Requests", RetryDelay, 0)

\* The record of a step: what it received (op, sock, size, parsed, action, params,
\* requestId, n, body; repeat: the notify call repeats the one the previous step
\* handled and delivered), what
\* it did (consulted and limited: the rate limiter was asked and reported at
\* capacity; handler; result; thrown; terminated; pushCalls), what it sent (out,
\* http; replay: the transactions openDatabase replayed; sent: the routes of the
\* frames in the order they were sent) and the state it started from (the
\* ...Before fields).
NoEvent ==
  [op |-> "init", sock |-> 0, size |-> 0, parsed |-> "no", action |-> "none",
   params |-> {}, consulted |-> FALSE, limited |-> FALSE, handler |-> "none",
   out |-> {}, thrown |-> FALSE,
   kvBefore |-> FALSE, usedBefore |-> 0, seqBefore |-> 0, stateBefore |-> "new",
   regBefore |-> {}, aliveBefore |-> {}, probedBefore |-> {}, heardBefore |-> {},
   terminated |-> {}, body |-> [transaction |-> {}, userId |-> "none"],
   pushCalls |-> <<>>, http |-> "none",
   requestId |-> NoId, n |-> {}, result |-> "none", replay |-> <<>>, sent |-> <<>>,
   repeat |-> FALSE, logBefore |-> <<>>, bundleBefore |-> 0, pendingBefore |-> 0,
   seen |-> 0]


(***************************************************************************)
(* The main channel's message handler, ws.on('message')                     *)
(***************************************************************************)
\* (variant: the ceiling itself is rejected too)
SizeRejectedInclusive(f) == f.size >= FOUR_HUNDRED_KB

\* the size check
SizeRejected(f) == f.size > FOUR_HUNDRED_KB

\* JSON.parse(msg) throws
ParseThrows(f) == f.json = "invalid"

\* JSON.parse(msg) returns null: reading request.requestId throws
RequestThrows(f) == f.json = "null"

\* (variant: no Pong branch)
IsPongNever(f) == FALSE

\* the Pong branch returns before the rate limiter is consulted
IsPong(f) == f.action = "Pong"

\* conn.rateLimiter.atCapacity(): every call counts one request of the window
AtCapacity(s) == used[s] >= Capacity

\* the actions of the validated switch that call a collaborator
ValidatedActions == {"UpdateUser", "DeleteUser", "OpenDatabase", "Insert", "Update",
                     "Delete", "BatchTransaction", "Bundle", "GetPasswordSalts"}

\* the handlers whose arguments read a property of params
ReadsParams(action) ==
  action \in {"SignOut", "ValidateKey", "UpdateUser", "OpenDatabase", "Insert",
              "Update", "Delete", "BatchTransaction", "Bundle"}

\* SignOut is dispatched before the connection's validation state is looked at
IsSignOut(action) == action = "SignOut"

\* (variant: Insert falls through to its handler before validation)
UnvalidatedSwitchOpen(action) ==
  IF action \in {"ValidateKey", "Insert"}
    THEN [kind |-> "invoke", status |-> "none"]
    ELSE [kind |-> "reply", status |-> "Unauthorized"]

\* the switch taken while !conn.keyValidated
UnvalidatedSwitch(action) ==
  IF action = "ValidateKey"
    THEN [kind |-> "invoke", status |-> "none"]
    ELSE [kind |-> "reply", status |-> "Unauthorized"]

\* (variant: ValidateKey is handed to the validation handler again)
ValidatedSwitchRevalidates(action) ==
  IF action \in ValidatedActions \cup {"ValidateKey"}
    THEN [kind |-> "invoke", status |-> "none"]
    ELSE [kind |-> "plain", status |-> "Received unkown action"]

\* the switch taken once conn.keyValidated
ValidatedSwitch(action) ==
  IF action = "ValidateKey"
    THEN [kind |-> "reply", status |-> "Bad Request"]
    ELSE IF action \in ValidatedActions
      THEN [kind |-> "invoke", status |-> "none"]
      ELSE [kind |-> "plain", status |-> "Received unkown action"]

\* the if / else-if chain below the rate limiter
Dispatch(validated, action) ==
  IF IsSignOut(action) THEN [kind |-> "invoke", status |-> "none"]
  ELSE IF ~validated THEN UnvalidatedSwitch(action)
  ELSE ValidatedSwitch(action)

\* (variant: the client's message is passed in both places)
ValidateKeyArgsEchoed(s, f) == [server |-> f.params, client |-> f.params]

\* the arguments handed to userController.validateKey
ValidateKeyArgs(s, f) == [server |-> vmsg[s], client |-> f.params]

\* the actions that append to the transaction log
Writes == {"Insert", "Update", "Delete", "BatchTransaction"}

\* (variant: the number is left out of the call)
OpenDatabaseArgsDropped(f) == {}

\* params.reopenAtSeqNo, as handed to db.openDatabase
OpenDatabaseArgs(f) == f.n

\* (variant: the bundle is recorded one transaction further than asked)
BundleArgsNext(f) == {k + 1 : k \in f.n}

\* params.seqNo, as handed to db.bundleTransactionLog
BundleArgs(f) == f.n

\* the number among the arguments of the handler called for the frame
NumberArg(f) ==
  IF f.action = "OpenDatabase" THEN OpenDatabaseArgs(f)
  ELSE IF f.action = "Bundle" THEN BundleArgs(f)
  ELSE {}

\* (variant: requestId is shared by the handler's invocations, so a response
\* carries the identifier of the request seen last)
ResponseIdLatest(req) == ev.requestId

\* const requestId = request.requestId, captured by each invocation
ResponseId(req) == req.requestId

\* the response envelope { requestId, response, route: action }
Reply(req, frame) == [frame EXCEPT !.requestId = ResponseId(req)]

\* (variant: the error response is built without the retry delay)
RateLimitedReplyNoDelay(s, f) == {Response(s, f.action, "Too Many Requests")}

\* what the rate-limited branch answers
RateLimitedReply(s, f) == {TooManyRequests(s, f.action)}

\* What one inbound frame makes the handler do, up to its first await:
\*   parsed    how far the frame was read ("no", "invalid", "null", "object")
\*   consulted conn.rateLimiter.atCapacity() was called
\*   limited   ... and returned true
\*   handler   the collaborator operation invoked ("none" if none)
\*   out       the frames sent before the handler returns
\*   thrown    the try block was left through the catch
MessageOutcome(s, f) ==
  LET base == [parsed |-> "no", action |-> "none", params |-> {}, consulted |-> FALSE,
               limited |-> FALSE, handler |-> "none", out |-> {}, thrown |-> FALSE,
               requestId |-> NoId]
      seen == [base EXCEPT !.parsed = "object", !.action = f.action,
                           !.requestId = f.requestId,
                           !.params = IF f.action = "ValidateKey" THEN f.params ELSE {}]
      d    == Dispatch(keyValidated[s], f.action)
  IN  IF SizeRejected(f) THEN [base EXCEPT !.out = {Plain(s, "Message is too large")}]
      ELSE IF ParseThrows(f) THEN [base EXCEPT !.parsed = "invalid", !.thrown = TRUE]
      ELSE IF RequestThrows(f) THEN [base EXCEPT !.parsed = "null", !.thrown = TRUE]
      ELSE IF IsPong(f) THEN seen
      ELSE IF AtCapacity(s)
        THEN [seen EXCEPT !.consulted = TRUE, !.limited = TRUE,
                          !.out = {Reply(f, o) : o \in RateLimitedReply(s, f)}]
      ELSE IF d.kind = "reply"
        THEN [seen EXCEPT !.consulted = TRUE,
                          !.out = {Reply(f, Response(s, f.action, d.status))}]
      ELSE IF d.kind = "plain"
        THEN [seen EXCEPT !.consulted = TRUE, !.out = {Plain(s, d.status)}]
      ELSE IF ReadsParams(f.action) /\ f.params = {}
        THEN [seen EXCEPT !.consulted = TRUE, !.thrown = TRUE]
      ELSE [seen EXCEPT !.consulted = TRUE, !.handler = f.action]

\* the state the step starts from, as recorded in ev
Before(s) ==
  [NoEvent EXCEPT !.sock = s, !.seqBefore = seqNo, !.regBefore = registry,
     !.logBefore = log, !.bundleBefore = bundleSeqNo,
     !.pendingBefore = BagCardinality(pending),
     !.kvBefore = IF s \in DOMAIN keyValidated THEN keyValidated[s] ELSE FALSE,
     !.usedBefore = IF s \in DOMAIN used THEN used[s] ELSE 0,
     !.aliveBefore = {t \in DOMAIN isAlive : isAlive[t]},
     !.stateBefore = IF s \in DOMAIN sockState THEN sockState[s] ELSE "new"]

\* the asynchronous call a dispatched frame starts: the request it answers and
\* the arguments it was given (seen: the database's counter as doCommand and
\* batchTransaction read it)
Call(s, f) ==
  [sock |-> s, requestId |-> f.requestId, action |-> f.action, n |-> f.n,
   args |-> ValidateKeyArgs(s, f), arg |-> NumberArg(f),
   seen |-> IF f.action \in Writes THEN seqNo ELSE 0]

\* room: the number of calls that may be in flight at once
MessageWithin(s, f, room) ==
  LET o == MessageOutcome(s, f)
  IN  /\ sockState[s] = "open"
      /\ hasHandlers[s]
      /\ o.consulted => used[s] < Capacity + MaxOver
      /\ o.handler # "none" => BagCardinality(pending) < room
      /\ isAlive' = [isAlive EXCEPT ![s] = TRUE]
      /\ quiet' = [quiet EXCEPT ![s] = IF @ = "fresh" THEN "fresh" ELSE "heard"]
      /\ used' = IF o.consulted THEN [used EXCEPT ![s] = @ + 1] ELSE used
      /\ pending' = IF o.handler # "none" THEN pending (+) SetToBag({Call(s, f)})
                      ELSE pending
      /\ ev' = [Before(s) EXCEPT !.op = "message", !.size = f.size, !.parsed = o.parsed,
                  !.action = o.action, !.params = o.params, !.consulted = o.consulted,
                  !.limited = o.limited, !.handler = o.handler, !.out = o.out,
                  !.thrown = o.thrown, !.requestId = o.requestId,
                  !.sent = IF o.out = {} THEN <<>> ELSE <<(CHOOSE x \in o.out : TRUE).route>>]
      /\ UNCHANGED <<sockState, sockPair, hasHandlers, registry, keyValidated, vmsg,
                     dbOpen, seqNo, fp, log, bundleSeqNo>>

Message(s, f) == MessageWithin(s, f, MaxPending)


(***************************************************************************)
(* wss.on('connection')                                                     *)
(***************************************************************************)
\* connections.register: refuses when a live connection of the same
\* (account, client) pair exists
RegisterAccepts(p) == \A t \in registry : sockPair[t] # p

\* (variant: the socket is set up whatever register returned)
SetsUpAlways(accepted) == TRUE

\* if (conn): only a socket that register accepted is set up
SetsUp(accepted) == accepted

Connect(s, p, m) ==
  LET accepted == RegisterAccepts(p)
      setup    == SetsUp(accepted)
  IN  /\ sockState[s] = "new"
      /\ sockState' = [sockState EXCEPT ![s] = "open"]
      /\ sockPair' = [sockPair EXCEPT ![s] = p]
      /\ isAlive' = [isAlive EXCEPT ![s] = TRUE]
      /\ registry' = IF accepted THEN registry \cup {s} ELSE registry
      /\ hasHandlers' = [hasHandlers EXCEPT ![s] = setup]
      /\ vmsg' = [vmsg EXCEPT ![s] = IF setup THEN {m} ELSE {}]
      /\ ev' = [Before(s) EXCEPT !.op = "connect",
                  !.out = IF setup THEN {Out(s, "Connection", "none", 0, 0)} ELSE {}]
      /\ UNCHANGED <<keyValidated, used, dbOpen, pending, seqNo, quiet, fp, log,
                     bundleSeqNo>>

(***************************************************************************)
(* Completion of an awaited handler and the response that follows           *)
(***************************************************************************)
\* userController.validateKey: compares the two messages
KeysMatch(args) == args.server = args.client

\* (variant: the transaction is put whatever the counter has become)
CommitSucceedsAlways(r) == TRUE

\* doCommand and batchTransaction put the transaction numbered one more than the
\* counter they read, on condition that the counter has not moved since
CommitSucceeds(r) == r.seen = seqNo

\* (variant: a bundle past the latest committed transaction is accepted)
BundleAcceptsAhead(k) == bundleSeqNo <= k

\* bundleTransactionLog accepts a sequence number from the current bundle's up to
\* the latest committed one
BundleAccepts(k) == bundleSeqNo <= k /\ k <= seqNo

\* (variant: the replay starts at the given sequence number)
ReplaysFrom(k, x) == x >= k

\* openDatabase replays the transactions after the given sequence number
Replays(k, x) == x > k

\* the transactions openDatabase sends for reopenAtSeqNo = arg, in log order
Replay(arg) == IF arg = {} THEN <<>>
               ELSE SelectSeq(log, LAMBDA x : \A k \in arg : Replays(k, x))

\* the outcomes a collaborator operation may have
Results(r) ==
  IF r.action = "ValidateKey"
    THEN IF KeysMatch(r.args) THEN {"Success"} ELSE {"Unauthorized"}
  ELSE IF r.action \in Writes
    THEN (IF CommitSucceeds(r) THEN {"Success"} ELSE {"Conflict"}) \cup {"Error", "Throw"}
  ELSE IF r.action = "Bundle"
    THEN (IF \E k \in r.arg : BundleAccepts(k) THEN {"Success"} ELSE {"Error"})
         \cup {"Throw"}
  ELSE {"Success", "Error", "Throw"}

AllResults == {"Success", "Unauthorized", "Conflict", "Error", "Throw"}

\* (variant: the socket's state is not looked at)
DeliversAlways(s) == TRUE

\* ws.send delivers only on an open socket
Delivers(s) == sockState[s] = "open"

\* (variant: the catch block answers like any other outcome)
ResponseSentAlways(result) == TRUE

\* a handler that throws leaves the try block before the response is sent
ResponseSent(result) == result # "Throw"

\* cap: the number of transactions the database may hold
CompleteWithin(r, result, cap) ==
  LET s == r.sock
      commits == r.action \in Writes /\ result = "Success"
      opens   == r.action = "OpenDatabase" /\ result = "Success"
      bundles == r.action = "Bundle" /\ result = "Success"
      replay  == IF opens /\ Delivers(s) THEN Replay(r.arg) ELSE <<>>
      answers == ResponseSent(result) /\ Delivers(s)
  IN  /\ r.action # "ForgotPassword"
      /\ result \in Results(r)
      /\ commits => seqNo < cap
      /\ pending' = pending (-) SetToBag({r})
      /\ keyValidated' = IF r.action = "ValidateKey" /\ result = "Success"
                           THEN [keyValidated EXCEPT ![s] = TRUE]
                           ELSE keyValidated
      /\ dbOpen' = IF opens THEN [dbOpen EXCEPT ![s] = TRUE] ELSE dbOpen
      /\ seqNo' = IF commits THEN seqNo + 1 ELSE seqNo
      /\ log' = IF commits THEN Append(log, r.seen + 1) ELSE log
      /\ bundleSeqNo' = IF bundles THEN CHOOSE k \in r.arg : TRUE ELSE bundleSeqNo
      /\ ev' = [Before(s) EXCEPT !.op = "complete", !.action = r.action,
                  !.params = IF r.action = "ValidateKey" THEN r.args.client ELSE {},
                  !.requestId = r.requestId, !.n = r.n, !.result = result,
                  !.seen = r.seen,
                  !.thrown = (result = "Throw"),
                  !.replay = replay,
                  !.sent = [i \in 1 .. Len(replay) |-> "ApplyTransactions"]
                           \o (IF answers THEN <<r.action>> ELSE <<>>),
                  !.out = IF answers
                            THEN {Reply(r, Response(s, r.action, result))}
                            ELSE {}]
      /\ UNCHANGED <<sockState, sockPair, hasHandlers, registry, isAlive, used, vmsg,
                     quiet, fp>>

Complete(r, result) == CompleteWithin(r, result, MaxSeq)

\* the rate limiter's window passes
WindowElapses(s) ==
  /\ hasHandlers[s]
  /\ sockState[s] = "open"
  /\ used[s] > 0
  /\ used' = [used EXCEPT ![s] = 0]
  /\ ev' = [Before(s) EXCEPT !.op = "window"]
  /\ UNCHANGED <<sockState, sockPair, hasHandlers, registry, isAlive, keyValidated,
                 vmsg, dbOpen, pending, seqNo, quiet, fp, log, bundleSeqNo>>

(***************************************************************************)
(* Heartbeat: setInterval(ping), and the sockets' close events              *)
(***************************************************************************)
\* wss.clients
WssClients == {s \in DOMAIN sockState : sockState[s] \in {"open", "closing"}}

\* (variant: the sweep never terminates)
SweepTerminatesNever(s) == FALSE

\* if (ws.isAlive === false) return ws.terminate()
SweepTerminates(s) == isAlive[s] = FALSE

ping ==
  LET dead == {s \in WssClients : SweepTerminates(s)}
      live == WssClients \ dead
  IN  /\ WssClients # {}
      /\ sockState' = [s \in DOMAIN sockState |->
                         IF s \in dead THEN "closing" ELSE sockState[s]]
      /\ isAlive' = [s \in DOMAIN isAlive |-> IF s \in live THEN FALSE ELSE isAlive[s]]
      /\ quiet' = [s \in DOMAIN quiet |-> IF s \in WssClients THEN "probed" ELSE quiet[s]]
      /\ ev' = [NoEvent EXCEPT !.op = "sweep", !.seqBefore = seqNo,
                  !.regBefore = registry, !.logBefore = log,
                  !.bundleBefore = bundleSeqNo,
                  !.pendingBefore = BagCardinality(pending), !.terminated = dead,
                  !.aliveBefore = {s \in WssClients : isAlive[s]},
                  !.probedBefore = {s \in WssClients : quiet[s] = "probed"},
                  !.heardBefore = {s \in WssClients : quiet[s] = "heard"},
                  !.out = {Out(s, "Ping", "none", 0, 0) : s \in {t \in live : Delivers(t)}}]
      /\ UNCHANGED <<sockPair, hasHandlers, registry, keyValidated, used, vmsg, dbOpen,
                     pending, seqNo, fp, log, bundleSeqNo>>

\* ws.on('close', () => connections.close(conn)), attached only under if (conn)
CloseHandler(s) == IF hasHandlers[s] THEN registry \ {s} ELSE registry

\* The socket's close event. The closed socket leaves wss.clients and receives
\* no frame again: nothing reads its liveness flag or its rate limiter any more,
\* and they are dropped from the state.
Closes(s, op) ==
  /\ sockState' = [sockState EXCEPT ![s] = "closed"]
  /\ registry' = CloseHandler(s)
  /\ isAlive' = [isAlive EXCEPT ![s] = FALSE]
  /\ quiet' = [quiet EXCEPT ![s] = "fresh"]
  /\ used' = [used EXCEPT ![s] = 0]
  /\ ev' = [Before(s) EXCEPT !.op = op]
  /\ UNCHANGED <<sockPair, hasHandlers, keyValidated, vmsg, dbOpen, pending, seqNo, fp,
                 log, bundleSeqNo>>

\* the close event of a terminated socket
CloseEvent(s) ==
  /\ sockState[s] = "closing"
  /\ Closes(s, "close")

\* the client disconnects
ClientClose(s) ==
  /\ sockState[s] = "open"
  /\ Closes(s, "disconnect")

(***************************************************************************)
(* internalServer.post('/internal/notify-transaction')                      *)
(***************************************************************************)
\* transaction is {} when the body has none, {n} for a transaction with seq-no n
NotifyBodies == [transaction : {{}} \cup {{n} : n \in 1 .. MaxSeq}, userId : Users]

\* reading transaction['database-id'] of a missing transaction throws
BodyThrows(body) == body.transaction = {}

\* connections.push: the validated connections of the account with the database open
PushRecipients(userId) ==
  {s \in registry : /\ sockPair[s][1] = userId
                    /\ keyValidated[s]
                    /\ dbOpen[s]
                    /\ sockState[s] = "open"}

\* (variant: the endpoint answers without calling push)
PushCallsNone(body) == <<>>

\* the calls of connections.push one request makes
PushCalls(body) == IF BodyThrows(body) THEN <<>> ELSE <<body>>

\* (variant: the catch block does not return the error)
NotifyStatusAlwaysOk(body, pushThrows) == "Success"

\* the status the endpoint answers with
NotifyStatus(body, pushThrows) ==
  IF BodyThrows(body) \/ pushThrows THEN "Internal Server Error" ELSE "Success"

Notify(body, pushThrows) ==
  LET calls == PushCalls(body)
      delivered == IF calls = <<>> \/ pushThrows THEN {}
                   ELSE {Out(s, "ApplyTransactions", "none", 0, n) :
                           s \in PushRecipients(calls[1].userId),
                           n \in calls[1].transaction}
  IN  /\ ev' = [NoEvent EXCEPT !.op = "notify", !.seqBefore = seqNo,
                  !.regBefore = registry, !.logBefore = log,
                  !.bundleBefore = bundleSeqNo,
                  !.pendingBefore = BagCardinality(pending),
                  !.repeat = (ev.op = "notify" /\ ev.body = body /\ ev.out # {}),
                  !.body = body, !.pushCalls = calls,
                  !.thrown = (BodyThrows(body) \/ pushThrows),
                  !.http = NotifyStatus(body, pushThrows), !.out = delivered]
      /\ UNCHANGED <<sockState, sockPair, hasHandlers, registry, isAlive, keyValidated,
                     used, vmsg, dbOpen, pending, seqNo, quiet, fp, log, bundleSeqNo>>

(***************************************************************************)
(* Frames of a socket that register refused                                 *)
(***************************************************************************)
\* (variant: the liveness flag is set outside if (conn))
HeartbeatOnFrameAlways(s) == TRUE

\* ws.isAlive = true is the first statement of the message handler, which is
\* attached under if (conn)
HeartbeatOnFrame(s) == hasHandlers[s]

\* a frame arrives on a main-channel socket that has no message handler
Unheard(s, f) ==
  /\ sockState[s] = "open"
  /\ ~hasHandlers[s]
  /\ fp[s] = "none"
  /\ isAlive' = [isAlive EXCEPT ![s] = IF HeartbeatOnFrame(s) THEN TRUE ELSE @]
  /\ quiet' = [quiet EXCEPT ![s] = IF @ = "fresh" THEN "fresh" ELSE "heard"]
  /\ ev' = [Before(s) EXCEPT !.op = "unheard", !.size = f.size,
              !.action = IF f.json = "object" THEN f.action ELSE "none"]
  /\ UNCHANGED <<sockState, sockPair, hasHandlers, registry, keyValidated, used, vmsg,
                 dbOpen, pending, seqNo, fp, log, bundleSeqNo>>

(***************************************************************************)
(* wss.on('forgot-password')                                                *)
(***************************************************************************)
\* the sizes on either side of the sub-channel's ceiling
ForgotSizes == {FIVE_KB, FIVE_KB + 1}

ForgotBodies ==
  [json : {"invalid", "null"}, action : {"none"}, params : {{}},
   requestId : {NoId}, n : {{}}]
  \cup [json : {"object"}, action : {"ForgotPassword", "SignOut"},
        params : {{}, SomeParams}, requestId : {NoId}, n : {{}}]

ForgotFrames == {Frame(z, b) : z \in ForgotSizes, b \in ForgotBodies}

\* ws.terminate(): the socket is destroyed, its close event follows
Terminate(s) ==
  [sockState EXCEPT ![s] = IF @ = "open" THEN "closing" ELSE @]

\* the connection event: the token is asked for, nothing is sent yet
ForgotConnect(s) ==
  /\ sockState[s] = "new"
  /\ sockState' = [sockState EXCEPT ![s] = "open"]
  /\ isAlive' = [isAlive EXCEPT ![s] = TRUE]
  /\ fp' = [fp EXCEPT ![s] = "opening"]
  /\ ev' = [Before(s) EXCEPT !.op = "forgot-connect"]
  /\ UNCHANGED <<sockPair, hasHandlers, registry, keyValidated, used, vmsg, dbOpen,
                 pending, seqNo, quiet, log, bundleSeqNo>>

\* userController.generateForgotPasswordToken resolves with the given status
ForgotToken(s, status) ==
  /\ fp[s] = "opening"
  /\ fp' = [fp EXCEPT ![s] = IF status = "Success" THEN "listening" ELSE "refused"]
  /\ sockState' = IF status = "Success" THEN sockState ELSE Terminate(s)
  /\ ev' = [Before(s) EXCEPT !.op = "forgot-token", !.result = status,
              !.terminated = IF status = "Success" THEN {} ELSE {s},
              !.out = IF ~Delivers(s) THEN {}
                      ELSE IF status = "Success"
                        THEN {Out(s, "ReceiveEncryptedToken", "none", 0, 0)}
                        ELSE {Out(s, "Error", status, 0, 0)}]
  /\ UNCHANGED <<sockPair, hasHandlers, registry, isAlive, keyValidated, used, vmsg,
                 dbOpen, pending, seqNo, quiet, log, bundleSeqNo>>

\* (variant: the ceiling of the main channel is applied)
ForgotSizeRejectedMain(f) == f.size > FOUR_HUNDRED_KB

\* the sub-channel's size check
ForgotSizeRejected(f) == f.size > FIVE_KB

\* What one inbound frame makes the sub-channel's handler do, up to its await
ForgotOutcome(s, f) ==
  LET base == [parsed |-> "no", action |-> "none", handler |-> "none", out |-> {},
               thrown |-> FALSE]
      seen == [base EXCEPT !.parsed = "object", !.action = f.action]
  IN  IF ForgotSizeRejected(f) THEN [base EXCEPT !.out = {Plain(s, "Message is too large")}]
      ELSE IF ParseThrows(f) THEN [base EXCEPT !.parsed = "invalid", !.thrown = TRUE]
      ELSE IF RequestThrows(f) THEN [base EXCEPT !.parsed = "null", !.thrown = TRUE]
      ELSE IF f.action # "ForgotPassword" THEN [seen EXCEPT !.thrown = TRUE]
      ELSE IF f.params = {} THEN [seen EXCEPT !.thrown = TRUE]
      ELSE [seen EXCEPT !.handler = "ForgotPassword"]

\* ws.on('message') of the sub-channel; it does not touch ws.isAlive
ForgotMessage(s, f) ==
  LET o == ForgotOutcome(s, f)
  IN  /\ sockState[s] = "open"
      /\ fp[s] = "listening"
      /\ o.handler # "none" => BagCardinality(pending) < MaxPending
      /\ quiet' = [quiet EXCEPT ![s] = IF @ = "fresh" THEN "fresh" ELSE "heard"]
      /\ pending' = IF o.handler # "none" THEN pending (+) SetToBag({Call(s, f)})
                      ELSE pending
      /\ ev' = [Before(s) EXCEPT !.op = "forgot-message", !.size = f.size,
                  !.parsed = o.parsed, !.action = o.action, !.handler = o.handler,
                  !.out = o.out, !.thrown = o.thrown]
      /\ UNCHANGED <<sockState, sockPair, hasHandlers, registry, isAlive, keyValidated,
                     used, vmsg, dbOpen, seqNo, fp, log, bundleSeqNo>>

\* userController.forgotPassword resolves with the given status, or throws
ForgotComplete(r, status) ==
  LET s == r.sock
  IN  /\ r.action = "ForgotPassword"
      /\ status \in {"Success", "Error", "Throw"}
      /\ pending' = pending (-) SetToBag({r})
      /\ sockState' = IF status = "Throw" THEN sockState ELSE Terminate(s)
      /\ ev' = [Before(s) EXCEPT !.op = "forgot-complete", !.action = r.action,
                  !.result = status, !.thrown = (status = "Throw"),
                  !.terminated = IF status = "Throw" THEN {} ELSE {s},
                  !.out = IF status = "Throw" \/ ~Delivers(s) THEN {}
                          ELSE IF status = "Success"
                            THEN {Out(s, "SuccessfullyForgotPassword", "Success", 0, 0)}
                            ELSE {Out(s, "Error", status, 0, 0)}]
      /\ UNCHANGED <<sockPair, hasHandlers, registry, isAlive, keyValidated, used, vmsg,
                     dbOpen, seqNo, quiet, fp, log, bundleSeqNo>>

(***************************************************************************)
(* Specifications                                                           *)
(***************************************************************************)
InitOver(S) ==
  /\ sockState = [s \in S |-> "new"]
  /\ sockPair = [s \in S |-> NoPair]
  /\ hasHandlers = [s \in S |-> FALSE]
  /\ registry = {}
  /\ isAlive = [s \in S |-> FALSE]
  /\ keyValidated = [s \in S |-> FALSE]
  /\ used = [s \in S |-> 0]
  /\ vmsg = [s \in S |-> {}]
  /\ dbOpen = [s \in S |-> FALSE]
  /\ pending = EmptyBag
  /\ seqNo = 0
  /\ quiet = [s \in S |-> "fresh"]
  /\ fp = [s \in S |-> "none"]
  /\ log = <<>>
  /\ bundleSeqNo = 0
  /\ ev = NoEvent

\* one connection speaking the whole protocol
Init == InitOver(ProtoSockets)

\* What the client sends. Until its key is validated it uses every action name;
\* afterwards it uses one name for each kind of case of the validated switch:
\* DeleteUser (reads no params), Bundle (reads params), OpenDatabase, and Insert
\* (the case Update and Delete share).
Spared == {"Update", "Delete", "BatchTransaction", "UpdateUser", "GetPasswordSalts"}

ClientFrames(s) ==
  IF keyValidated[s] THEN {f \in Frames : f.action \notin Spared} ELSE Frames

Next ==
  \/ \E s \in ProtoSockets, p \in ProtoPairs, m \in Issued : Connect(s, p, m)
  \/ \E s \in ProtoSockets : \E f \in ClientFrames(s) : Message(s, f)
  \/ \E r \in BagToSet(pending), result \in AllResults : Complete(r, result)
  \/ \E s \in ProtoSockets : WindowElapses(s)
  \/ ping
  \/ \E s \in ProtoSockets : CloseEvent(s)
  \/ \E s \in ProtoSockets : ClientClose(s)

Spec == Init /\ [][Next]_vars

\* several sockets competing for the registry
InitRegistry == InitOver(Sockets)

NextRegistry ==
  \/ \E s \in Sockets, p \in Pairs, m \in Issued : Connect(s, p, m)
  \/ \E s \in Sockets, f \in UncountedFrames : Message(s, f)
  \/ ping
  \/ \E s \in Sockets : CloseEvent(s)
  \/ \E s \in Sockets : ClientClose(s)

SpecRegistry == InitRegistry /\ [][NextRegistry]_vars

\* connections that validate, open the database and commit, and the peers'
\* notifications
NotifyFrames ==
  {f \in Frames : /\ f.size = FOUR_HUNDRED_KB
                  /\ f.action \in {"ValidateKey", "OpenDatabase", "Insert"}
                  /\ f.params = SomeParams}

NextNotify ==
  \/ \E s \in ProtoSockets, p \in Pairs, m \in Issued : Connect(s, p, m)
  \/ \E s \in ProtoSockets, f \in NotifyFrames : Message(s, f)
  \/ \E r \in BagToSet(pending), result \in AllResults : Complete(r, result)
  \/ \E s \in ProtoSockets : WindowElapses(s)
  \/ \E s \in ProtoSockets : ClientClose(s)
  \/ \E body \in NotifyBodies, pushThrows \in BOOLEAN : Notify(body, pushThrows)

SpecNotify == Init /\ [][NextNotify]_vars

\* two connections of one account writing to the database
LogSockets == {1, 2}
LogPair(s) == <<"u1", IF s = 1 THEN "c1" ELSE "c2">>

LogBodies ==
  [json : {"object"}, action : {"ValidateKey", "Insert"}, params : {SomeParams},
   requestId : {NoId}, n : {{}}]
  \cup [json : {"object"}, action : {"Insert"}, params : {{}},
        requestId : {NoId}, n : {{}}]

LogFrames == {Frame(FOUR_HUNDRED_KB, b) : b \in LogBodies}

InitLog == InitOver(LogSockets)

NextLog ==
  \/ \E s \in LogSockets, m \in Issued : Connect(s, LogPair(s), m)
  \/ \E s \in LogSockets, f \in LogFrames : MessageWithin(s, f, MaxOverlap)
  \/ \E r \in BagToSet(pending), result \in AllResults :
       CompleteWithin(r, result, MaxLog)
  \/ \E s \in LogSockets : WindowElapses(s)

SpecLog == InitLog /\ [][NextLog]_vars

\* one connection that writes, reopens the database and bundles its log
\* the values of params.reopenAtSeqNo and of params.seqNo the client sends
ReopenAt == {0, 1, 2}
BundleAt == {0, 1, 2, 3}

ReplayBodies ==
  LogBodies
  \cup [json : {"object"}, action : {"OpenDatabase"}, params : {SomeParams},
        requestId : {NoId}, n : {{}} \cup {{k} : k \in ReopenAt}]
  \cup [json : {"object"}, action : {"Bundle"}, params : {SomeParams},
        requestId : {NoId}, n : {{k} : k \in BundleAt}]

ReplayFrames == {Frame(FOUR_HUNDRED_KB, b) : b \in ReplayBodies}

NextReplay ==
  \/ \E s \in ProtoSockets, p \in ProtoPairs, m \in Issued : Connect(s, p, m)
  \/ \E s \in ProtoSockets, f \in ReplayFrames : Message(s, f)
  \/ \E r \in BagToSet(pending), result \in AllResults :
       CompleteWithin(r, result, MaxLog)
  \/ \E s \in ProtoSockets : WindowElapses(s)

SpecReplay == Init /\ [][NextReplay]_vars

\* two sockets that connect, validate and open the database, and the peers'
\* notifications
FanoutSockets == {1, 2}

FanoutFrames ==
  {f \in Frames : /\ f.size = FOUR_HUNDRED_KB
                  /\ f.action \in {"ValidateKey", "OpenDatabase"}
                  /\ f.params = SomeParams}

InitFanout == InitOver(FanoutSockets)

NextFanout ==
  \/ \E s \in FanoutSockets, p \in Pairs, m \in Issued : Connect(s, p, m)
  \/ \E s \in FanoutSockets, f \in FanoutFrames : Message(s, f)
  \/ \E r \in BagToSet(pending), result \in AllResults : Complete(r, result)
  \/ \E s \in FanoutSockets : ClientClose(s)
  \/ \E body \in NotifyBodies, pushThrows \in BOOLEAN : Notify(body, pushThrows)

SpecFanout == InitFanout /\ [][NextFanout]_vars

\* one connection whose requests carry identifiers and overlap
OverlapBodies ==
  [json : {"object"}, action : {"ValidateKey", "Insert", "Frobnicate"},
   params : {SomeParams}, requestId : RequestIds, n : {{}}]

OverlapFrames ==
  {Frame(FOUR_HUNDRED_KB, b) : b \in OverlapBodies}
  \cup {Frame(z, b) : z \in Sizes, b \in {c \in Bodies : c.json = "invalid"}}

NextOverlap ==
  \/ \E s \in ProtoSockets, p \in ProtoPairs, m \in Issued : Connect(s, p, m)
  \/ \E s \in ProtoSockets, f \in OverlapFrames : MessageWithin(s, f, MaxOverlap)
  \/ \E r \in BagToSet(pending), result \in AllResults : Complete(r, result)
  \/ \E s \in ProtoSockets : WindowElapses(s)

SpecOverlap == Init /\ [][NextOverlap]_vars

\* two sockets of one device: the second to connect is refused while the first
\* is live; the peers' notifications; the heartbeat
RefusedFrames ==
  {f \in Frames : /\ f.size = FOUR_HUNDRED_KB
                  /\ f.action \in {"Pong", "ValidateKey", "OpenDatabase"}
                  /\ f.params = SomeParams}

RefusedBodies == {b \in NotifyBodies : b.userId = "u1" /\ b.transaction # {}}

NextRefused ==
  \/ \E s \in FanoutSockets, p \in ProtoPairs, m \in Issued : Connect(s, p, m)
  \/ \E s \in FanoutSockets, f \in RefusedFrames : Message(s, f)
  \/ \E s \in FanoutSockets, f \in RefusedFrames : Unheard(s, f)
  \/ \E r \in BagToSet(pending), result \in AllResults : Complete(r, result)
  \/ \E body \in RefusedBodies : Notify(body, FALSE)
  \/ ping
  \/ \E s \in FanoutSockets : CloseEvent(s)
  \/ \E s \in FanoutSockets : ClientClose(s)

SpecRefused == InitFanout /\ [][NextRefused]_vars

\* sockets of the forgot-password sub-channel, under the heartbeat
NextForgot ==
  \/ \E s \in Sockets : ForgotConnect(s)
  \/ \E s \in Sockets, status \in {"Success", "Error"} : ForgotToken(s, status)
  \/ \E s \in Sockets, f \in ForgotFrames : ForgotMessage(s, f)
  \/ \E r \in BagToSet(pending), status \in AllResults : ForgotComplete(r, status)
  \/ ping
  \/ \E s \in Sockets : CloseEvent(s)
  \/ \E s \in Sockets : ClientClose(s)

SpecForgot == InitRegistry /\ [][NextForgot]_vars


(***************************************************************************)
(* Properties                                                               *)
(***************************************************************************)
OnMessage == ev.op = "message"

Unauthorized(s, action) == Response(s, action, "Unauthorized")

\* action names other than ValidateKey, SignOut and the liveness reply
OtherNames == ActionNames \ {"ValidateKey", "SignOut", "Pong"}

\* the step called neither the transaction log nor the user-management
\* collaborator, and committed nothing
NoCollaboratorCall == ev.handler = "none" /\ seqNo = ev.seqBefore

\* C1, as stated: on an Unvalidated connection only ValidateKey and SignOut reach
\* a handler, and a frame with any other action name is answered with
\* Unauthorized and calls no collaborator.
C1_AsStated ==
  (OnMessage /\ ~ev.kvBefore) =>
    /\ ev.handler \in {"none", "ValidateKey", "SignOut"}
    /\ (ev.parsed = "object" /\ ev.action \in OtherNames) =>
         /\ ev.out = {Unauthorized(ev.sock, ev.action)}
         /\ NoCollaboratorCall

\* C1, amended: on an Unvalidated connection only ValidateKey and SignOut reach a
\* handler; a frame with any other action name calls no collaborator and is
\* answered with Unauthorized, unless the rate limiter reports at capacity, when
\* it is answered with Too Many Requests.
C1_UnvalidatedRejects ==
  (OnMessage /\ ~ev.kvBefore) =>
    /\ ev.handler \in {"none", "ValidateKey", "SignOut"}
    /\ (ev.parsed = "object" /\ ev.action \in OtherNames) =>
         /\ ev.out = IF ev.limited
                       THEN {TooManyRequests(ev.sock, ev.action)}
                       ELSE {Unauthorized(ev.sock, ev.action)}
         /\ NoCollaboratorCall
         /\ ~keyValidated[ev.sock]

\* an Insert on an Unvalidated connection was answered with Unauthorized
C1_Witness ==
  /\ OnMessage /\ ~ev.kvBefore /\ ev.action = "Insert"
  /\ ev.out = {Unauthorized(ev.sock, "Insert")}

\* a ValidateKey request whose params carry a message other than the server's
Mismatching(e, s) == e.action = "ValidateKey" /\ e.params # {} /\ e.params # vmsg[s]

\* the validation state changes only from Unvalidated to Validated, on the
\* completion of a ValidateKey whose message equals the server's
C2Transition ==
  \A s \in DOMAIN keyValidated :
    keyValidated'[s] # keyValidated[s] =>
      /\ ~keyValidated[s] /\ keyValidated'[s]
      /\ ev'.op = "complete" /\ ev'.sock = s /\ ev'.action = "ValidateKey"
      /\ ev'.params = vmsg[s]

\* the completion of a mismatching ValidateKey answers Unauthorized, changes no
\* validation state and closes nothing
C2MismatchAnswer ==
  (ev'.op = "complete" /\ Mismatching(ev', ev'.sock)) =>
    /\ keyValidated' = keyValidated
    /\ sockState' = sockState /\ registry' = registry
    /\ ev'.out = IF sockState[ev'.sock] = "open"
                   THEN {Unauthorized(ev'.sock, "ValidateKey")}
                   ELSE {}

\* a mismatching ValidateKey received on an Unvalidated connection is handed to
\* the validation handler, which answers it
C2MismatchHandled(rateLimited) ==
  (ev'.op = "message" /\ Mismatching(ev', ev'.sock) /\ ~ev'.kvBefore /\ ~rateLimited) =>
    /\ ev'.handler = "ValidateKey" /\ ev'.out = {}
    /\ keyValidated' = keyValidated
    /\ sockState' = sockState /\ registry' = registry

\* C2, as stated: the validation state only changes from Unvalidated to Validated,
\* only by a ValidateKey whose plaintext equals the server's message, and never
\* back; a mismatching ValidateKey leaves the state as it is, is answered with an
\* authorization failure and does not close the connection.
C2_AsStated ==
  [][C2Transition /\ C2MismatchAnswer /\ C2MismatchHandled(FALSE)]_vars

\* C2, amended: as stated, for a mismatching ValidateKey that arrives while the
\* rate limiter is not at capacity (at capacity it is answered with Too Many
\* Requests and the validation handler is not called).
C2_ValidationMonotone ==
  [][/\ C2Transition
     /\ C2MismatchAnswer
     /\ C2MismatchHandled(ev'.limited)
     /\ (ev'.op = "message" /\ Mismatching(ev', ev'.sock) /\ ev'.limited) =>
          /\ ev'.out = {TooManyRequests(ev'.sock, "ValidateKey")}
          /\ ev'.handler = "none"
          /\ keyValidated' = keyValidated /\ sockState' = sockState]_vars

\* a mismatching ValidateKey was answered with Unauthorized on a connection that
\* is still open and Unvalidated
C2_Witness ==
  /\ ev.op = "complete" /\ Mismatching(ev, ev.sock)
  /\ ev.out = {Unauthorized(ev.sock, "ValidateKey")}
  /\ ~keyValidated[ev.sock] /\ sockState[ev.sock] = "open" /\ ev.sock \in registry

BadRequest(s) == Response(s, "ValidateKey", "Bad Request")

\* an Insert with params received while the limiter has budget goes to the log
C3InsertDispatched ==
  (OnMessage /\ ev.kvBefore /\ ev.action = "Insert" /\ ~ev.limited /\ ~ev.thrown) =>
    ev.handler = "Insert"

\* C3, as stated: on a Validated connection every further ValidateKey is answered
\* with Bad Request, does not reach the validation handler and leaves the
\* connection Validated, and an Insert is dispatched to the transaction log.
C3_AsStated ==
  /\ (OnMessage /\ ev.kvBefore /\ ev.action = "ValidateKey") =>
       /\ ev.out = {BadRequest(ev.sock)}
       /\ ev.handler = "none"
       /\ keyValidated[ev.sock]
  /\ C3InsertDispatched

\* C3, amended: on a Validated connection every further ValidateKey leaves the
\* connection Validated, does not reach the validation handler and is answered
\* with Bad Request, unless the rate limiter reports at capacity, when it is
\* answered with Too Many Requests; an Insert is dispatched to the log.
C3_SecondValidateKey ==
  /\ (OnMessage /\ ev.kvBefore /\ ev.action = "ValidateKey") =>
       /\ ev.out = IF ev.limited
                     THEN {TooManyRequests(ev.sock, "ValidateKey")}
                     ELSE {BadRequest(ev.sock)}
       /\ ev.handler = "none"
       /\ keyValidated[ev.sock]
  /\ C3InsertDispatched

\* a second ValidateKey was answered with Bad Request
C3_Witness ==
  /\ OnMessage /\ ev.kvBefore /\ ev.action = "ValidateKey"
  /\ ev.out = {BadRequest(ev.sock)} /\ keyValidated[ev.sock]


\* the step left the connection's validation state and the log as they were
SameValidationAndLog == keyValidated[ev.sock] = ev.kvBefore /\ seqNo = ev.seqBefore

\* C4: a frame that passes the size check, parses to a request and is not Pong
\* reaches the rate limiter; when the limiter reports at capacity the frame is
\* answered with Too Many Requests carrying retryDelay 1000, no handler runs
\* (SignOut and ValidateKey included) and neither the validation state nor the
\* log changes; the limiter reports at capacity exactly from the (Capacity+1)-th
\* counted request of a window on, and only then is Too Many Requests sent.
C4_RateLimited ==
  OnMessage =>
    /\ (ev.parsed = "object" /\ ev.action # "Pong") => ev.consulted
    /\ ev.consulted => (ev.limited <=> ev.usedBefore >= Capacity)
    /\ ev.limited =>
         /\ ev.out = {[to |-> ev.sock, route |-> ev.action,
                       status |-> "Too Many Requests", retryDelay |-> 1000,
                       seqNo |-> 0, requestId |-> ev.requestId]}
         /\ ev.handler = "none"
         /\ SameValidationAndLog
    /\ ~ev.limited => \A o \in ev.out : o.status # "Too Many Requests"
    /\ (ev.consulted /\ ~ev.limited /\ ~ev.thrown) =>
         (ev.handler # "none" \/ ev.out # {})

\* a SignOut, the request after the last one the window admits, was answered
\* with Too Many Requests
C4_Witness ==
  /\ OnMessage /\ ev.action = "SignOut" /\ ev.usedBefore = Capacity
  /\ ev.limited /\ ev.handler = "none"
  /\ \E o \in ev.out : o.status = "Too Many Requests" /\ o.retryDelay = 1000

\* C5: a Pong frame never reaches the rate limiter (the budget is neither
\* consulted nor consumed), gets no Too Many Requests and no other frame in
\* reply, sets the liveness flag and changes nothing else.
C5_PongBypasses ==
  (OnMessage /\ ev.action = "Pong") =>
    /\ ~ev.consulted /\ ~ev.limited
    /\ used[ev.sock] = ev.usedBefore
    /\ ev.out = {}
    /\ ev.handler = "none" /\ ~ev.thrown
    /\ isAlive[ev.sock]
    /\ SameValidationAndLog
    /\ registry = ev.regBefore
    /\ sockState[ev.sock] = ev.stateBefore

\* a Pong arrived while the limiter was at capacity and after a sweep had
\* cleared the liveness flag
C5_Witness ==
  /\ OnMessage /\ ev.action = "Pong"
  /\ ev.usedBefore >= Capacity
  /\ ev.sock \notin ev.aliveBefore
  /\ isAlive[ev.sock] /\ ev.out = {}

\* C6, as stated: every frame other than Pong and other than a size-rejected one
\* takes exactly one unit of the limiter's budget, malformed frames and frames
\* with unknown action names included.
C6_AsStated ==
  (OnMessage /\ ev.size <= 400 * 1024 /\ ev.action # "Pong") =>
    used[ev.sock] = ev.usedBefore + 1

\* the largest frame the main channel accepts
C7Ceiling == 400 * 1024

\* C7: a frame larger than 400 KB is answered with 'Message is too large' and is
\* neither parsed nor counted by the rate limiter nor dispatched, leaving the
\* validation state and the budget as they were; a frame of 400 KB or less is not
\* size-rejected; the limiter is consulted only after the size check passed, and
\* a handler runs only after the limiter was consulted and had budget.
C7_SizeCheckFirst ==
  OnMessage =>
    /\ ev.size > C7Ceiling =>
         /\ ev.out = {Plain(ev.sock, "Message is too large")}
         /\ ev.parsed = "no" /\ ev.action = "none"
         /\ ~ev.consulted /\ ev.handler = "none"
         /\ used[ev.sock] = ev.usedBefore
         /\ SameValidationAndLog
    /\ ev.size <= C7Ceiling =>
         /\ Plain(ev.sock, "Message is too large") \notin ev.out
         /\ ev.parsed # "no"
    /\ ev.consulted => ev.size <= C7Ceiling
    /\ ev.handler # "none" => (ev.consulted /\ ~ev.limited)

\* a frame one byte over the ceiling was rejected
C7_Witness ==
  /\ OnMessage /\ ev.size = C7Ceiling + 1
  /\ ev.out = {Plain(ev.sock, "Message is too large")}

\* a frame of exactly the ceiling was dispatched to its handler
C7_WitnessAtCeiling ==
  /\ OnMessage /\ ev.size = C7Ceiling /\ ev.handler = "Insert"


Ping(s) == Out(s, "Ping", "none", 0, 0)

\* the sockets the sweep visited: those it terminated and those it probed
Swept == ev.terminated \cup {o.to : o \in ev.out}

\* C8: at a sweep every socket whose liveness flag is false is terminated, and
\* every other one has its flag set to false and is sent a Ping; so a registered
\* connection from which no frame arrived since the previous sweep is terminated,
\* and one from which a frame (Pong or any other) arrived since the previous
\* sweep is not terminated and is probed again.
C8_Heartbeat ==
  ev.op = "sweep" =>
    /\ \A s \in Swept :
         /\ s \in ev.terminated <=> s \notin ev.aliveBefore
         /\ s \in ev.terminated => sockState[s] = "closing"
         /\ s \notin ev.terminated =>
              /\ ~isAlive[s]
              /\ Ping(s) \in ev.out
              /\ sockState[s] = "open"
    /\ \A s \in ev.probedBefore : hasHandlers[s] => s \in ev.terminated
    /\ \A s \in ev.heardBefore : s \notin ev.terminated /\ Ping(s) \in ev.out
    /\ ev.probedBefore \cup ev.heardBefore \subseteq Swept

\* a sweep terminated a registered connection that had been silent since the
\* previous sweep
C8_Witness ==
  /\ ev.op = "sweep"
  /\ \E s \in ev.probedBefore : hasHandlers[s] /\ s \in ev.terminated /\ s \in registry

\* a sweep spared a connection that had sent a frame since the previous sweep
C8_WitnessSpared ==
  /\ ev.op = "sweep"
  /\ \E s \in ev.heardBefore : sockState[s] = "open" /\ Ping(s) \in ev.out

\* the registered connections of a pair
Live(reg, p) == {t \in reg : sockPair[t] = p}

\* C9: at most one registered connection per (account, client) pair; a socket
\* connecting for a pair that has a registered connection is refused, and a
\* refused socket gets no validation message, no Connection push and no message
\* or close handler; a socket connecting for a pair without one (never used, or
\* whose connection has closed) is registered and set up.
C9_OnePerPair ==
  /\ \A p \in Pairs : Cardinality(Live(registry, p)) <= 1
  /\ \A s \in registry : sockState[s] \in {"open", "closing"} /\ hasHandlers[s]
  /\ ev.op = "connect" =>
       LET s == ev.sock
           taken == Live(ev.regBefore, sockPair[s]) # {}
       IN  /\ taken =>
                /\ s \notin registry
                /\ vmsg[s] = {}
                /\ ev.out = {}
                /\ ~hasHandlers[s]
           /\ ~taken =>
                /\ s \in registry
                /\ vmsg[s] # {}
                /\ ev.out = {Out(s, "Connection", "none", 0, 0)}
                /\ hasHandlers[s]
  /\ \A s \in DOMAIN hasHandlers :
       ~hasHandlers[s] => (vmsg[s] = {} /\ s \notin registry)

\* a socket was refused while the pair's connection was live, and the refused
\* socket is open
C9_Witness ==
  /\ ev.op = "connect" /\ ev.sock \notin registry
  /\ sockState[ev.sock] = "open" /\ ~hasHandlers[ev.sock]
  /\ Live(registry, sockPair[ev.sock]) # {}

\* a socket registered for a pair whose earlier connection has closed
C9_WitnessReconnect ==
  /\ ev.op = "connect" /\ ev.sock \in registry
  /\ \E t \in DOMAIN sockState :
       /\ t # ev.sock /\ sockState[t] = "closed"
       /\ hasHandlers[t] /\ sockPair[t] = sockPair[ev.sock]

\* C10: a notify request that carries a transaction calls the registry push
\* exactly once, with that transaction and user id; the request is answered with
\* success when push returns and with Internal Server Error when processing
\* throws, as it does when the body has no transaction; no request calls push
\* twice, and none changes the committed sequence number or a connection.
C10_Notify ==
  ev.op = "notify" =>
    /\ ev.body.transaction # {} => ev.pushCalls = <<ev.body>>
    /\ ev.body.transaction = {} => (ev.pushCalls = <<>> /\ ev.thrown)
    /\ Len(ev.pushCalls) <= 1
    /\ ev.http = IF ev.thrown THEN "Internal Server Error" ELSE "Success"
    /\ ev.thrown => ev.out = {}
    /\ seqNo = ev.seqBefore
    /\ registry = ev.regBefore

\* push threw for a transaction that is committed: the request was answered with
\* Internal Server Error and the commit stands
C10_Witness ==
  /\ ev.op = "notify" /\ ev.body.transaction = {seqNo}
  /\ ev.pushCalls = <<ev.body>> /\ ev.thrown
  /\ ev.http = "Internal Server Error"

\* a notification reached a validated connection that has the database open
C10_WitnessDelivered ==
  /\ ev.op = "notify" /\ ev.http = "Success"
  /\ \E o \in ev.out : o.route = "ApplyTransactions" /\ o.seqNo = seqNo

\* the socket has been terminated, or has closed
Terminated(s) == sockState[s] \in {"closing", "closed"}

\* C11, as stated: once the server has handled an inbound frame of the
\* forgot-password sub-channel the socket is terminated: a ForgotPassword that
\* succeeds is answered with SuccessfullyForgotPassword and one that fails with
\* Error, each followed by termination, and a frame with another action or one
\* larger than 5 KB terminates the socket.
C11_AsStated ==
  /\ (ev.op = "forgot-message" /\ ev.handler = "none") => Terminated(ev.sock)
  /\ ev.op = "forgot-complete" =>
       /\ Terminated(ev.sock)
       /\ ev.stateBefore = "open" =>
            ev.out = {IF ev.result = "Success"
                        THEN Out(ev.sock, "SuccessfullyForgotPassword", "Success", 0, 0)
                        ELSE Out(ev.sock, "Error", ev.result, 0, 0)}

\* C12: at the close event of a main-channel socket (after a client disconnect or
\* after the sweep terminated it) the connection's registry entry is released in
\* that same step; no frame is delivered on a socket that is not open, and the
\* completion of a handler that was in flight when its socket closed sends
\* nothing.
C12_CloseReleases ==
  /\ ev.op \in {"close", "disconnect"} =>
       /\ sockState[ev.sock] = "closed"
       /\ ev.sock \notin registry
       /\ registry = ev.regBefore \ {ev.sock}
  /\ \A s \in registry : sockState[s] # "closed"
  /\ \A o \in ev.out : sockState[o.to] = "open"
  /\ (ev.op = "complete" /\ ev.stateBefore # "open") => (ev.out = {} /\ ev.sent = <<>>)

\* a handler that was in flight when the client disconnected completed with
\* success, and nothing was sent
C12_Witness ==
  /\ ev.op = "complete" /\ ev.stateBefore = "closed" /\ ev.result = "Success"
  /\ ev.out = {} /\ ev.sock \notin registry

\* the close event of a socket the sweep terminated released its entry while a
\* handler was in flight
C12_WitnessSwept ==
  /\ ev.op = "close" /\ ev.sock \in ev.regBefore /\ ev.sock \notin registry
  /\ \E r \in BagToSet(pending) : r.sock = ev.sock

\* C13: the sequence numbers of the committed transactions are 1, 2, ..., k after
\* k commits, whatever the interleaving of the writers: a commit appends the
\* number after the latest one, every other step leaves the log as it was, and a
\* writer that read the counter before another writer's commit never commits; it
\* is answered with a conflict, and the log keeps the committed transactions.
C13_Gapless ==
  /\ \A i \in 1 .. Len(log) : log[i] = i
  /\ seqNo = Len(log)
  /\ (ev.op = "complete" /\ ev.action \in Writes) =>
       /\ ev.result = "Success" =>
            (ev.seen = ev.seqBefore /\ log = Append(ev.logBefore, ev.seqBefore + 1))
       /\ ev.result # "Success" => log = ev.logBefore
       /\ ev.seen # ev.seqBefore => ev.result \in {"Conflict", "Error", "Throw"}
       /\ ev.result = "Conflict" =>
            /\ ev.seen < ev.seqBefore
            /\ ev.out = {Response(ev.sock, ev.action, "Conflict")}
  /\ ~(ev.op = "complete" /\ ev.action \in Writes) => log = ev.logBefore

\* a writer lost the race to a writer of another connection and was answered
\* with a conflict
C13_Witness ==
  /\ ev.op = "complete" /\ ev.action = "Insert" /\ ev.result = "Conflict"
  /\ ev.seen = 0 /\ log = <<1>>
  /\ ev.out = {Response(ev.sock, "Insert", "Conflict")}

\* two transactions were committed by two connections
C13_WitnessTwo ==
  /\ ev.op = "complete" /\ ev.result = "Success" /\ log = <<1, 2>>
  /\ ev.pendingBefore = 2

\* the sequence numbers k + 1, ..., last in increasing order (none if last <= k)
After(k, last) == [i \in 1 .. (IF last > k THEN last - k ELSE 0) |-> k + i]

\* C14: an OpenDatabase with reopenAtSeqNo = n that succeeds on a validated
\* connection replays the committed transactions numbered n + 1 up to the latest,
\* in increasing order, and none numbered n or less; the replayed transactions
\* are sent before the response; no other step replays anything.
C14_Replay ==
  /\ (ev.op = "complete" /\ ev.action = "OpenDatabase" /\ ev.result = "Success"
        /\ ev.stateBefore = "open") =>
       /\ ev.kvBefore
       /\ \A k \in ev.n :
            /\ ev.replay = After(k, seqNo)
            /\ \A i \in 1 .. Len(ev.replay) : ev.replay[i] > k
       /\ ev.sent = [i \in 1 .. Len(ev.replay) |-> "ApplyTransactions"]
                    \o <<"OpenDatabase">>
       /\ dbOpen[ev.sock]
  /\ ~(ev.op = "complete" /\ ev.action = "OpenDatabase" /\ ev.result = "Success") =>
       ev.replay = <<>>

\* a reopen at 1 of a database holding two transactions replayed the second only
C14_Witness ==
  /\ ev.op = "complete" /\ ev.action = "OpenDatabase" /\ ev.n = {1}
  /\ log = <<1, 2>> /\ ev.replay = <<2>>
  /\ ev.sent = <<"ApplyTransactions", "OpenDatabase">>

\* a reopen at 0 replayed both transactions in order
C14_WitnessAll ==
  /\ ev.op = "complete" /\ ev.action = "OpenDatabase" /\ ev.n = {0}
  /\ ev.replay = <<1, 2>>

\* C16: the bundle sequence number never exceeds the latest committed sequence
\* number and no step lowers it; a Bundle whose seqNo is below the current bundle
\* sequence number or above the latest committed one is answered with an error
\* and changes nothing, and one whose seqNo lies between them succeeds and
\* becomes the current bundle; nothing else changes the bundle.
C16_Bundle ==
  /\ bundleSeqNo <= seqNo
  /\ bundleSeqNo >= ev.bundleBefore
  /\ (ev.op = "complete" /\ ev.action = "Bundle" /\ ~ev.thrown) =>
       /\ \A k \in ev.n :
            IF k < ev.bundleBefore \/ k > ev.seqBefore
              THEN /\ ev.result = "Error"
                   /\ bundleSeqNo = ev.bundleBefore
              ELSE /\ ev.result = "Success"
                   /\ bundleSeqNo = k
       /\ ev.n = {} => (ev.result = "Error" /\ bundleSeqNo = ev.bundleBefore)
       /\ log = ev.logBefore /\ seqNo = ev.seqBefore
       /\ ev.stateBefore = "open" => ev.out = {Response(ev.sock, "Bundle", ev.result)}
  /\ ~(ev.op = "complete" /\ ev.action = "Bundle" /\ ev.result = "Success") =>
       bundleSeqNo = ev.bundleBefore

\* a Bundle behind the current bundle was rejected
C16_Witness ==
  /\ ev.op = "complete" /\ ev.action = "Bundle" /\ ev.result = "Error"
  /\ \E k \in ev.n : k < ev.bundleBefore /\ k <= seqNo

\* a Bundle past the latest committed transaction was rejected
C16_WitnessAhead ==
  /\ ev.op = "complete" /\ ev.action = "Bundle" /\ ev.result = "Error"
  /\ \E k \in ev.n : k > seqNo /\ seqNo > 0

\* a Bundle between the two succeeded
C16_WitnessBetween ==
  /\ ev.op = "complete" /\ ev.action = "Bundle" /\ ev.result = "Success"
  /\ bundleSeqNo = 2 /\ ev.bundleBefore = 1 /\ seqNo = 2

\* the open connections registered for an account that are Validated and have
\* the database open
Eligible(u) ==
  {s \in DOMAIN sockState : /\ s \in registry /\ sockState[s] = "open"
                            /\ sockPair[s][1] = u
                            /\ keyValidated[s] /\ dbOpen[s]}

\* the sockets a step sent a frame to
Reached == {o.to : o \in ev.out}

\* C15: a notify call that carries a transaction for account U and is processed
\* without failure pushes the transaction, with the sequence number it carries,
\* to every connection registered for U that is Validated and has the database
\* open, and to no connection of another account, no Unvalidated connection and
\* none without the database open; a call that repeats the one just delivered
\* delivers again.
C15_Fanout ==
  (ev.op = "notify" /\ ev.body.transaction # {} /\ ~ev.thrown) =>
    /\ Reached = Eligible(ev.body.userId)
    /\ \A o \in ev.out : o.route = "ApplyTransactions" /\ {o.seqNo} = ev.body.transaction
    /\ \A s \in Reached : /\ sockPair[s][1] = ev.body.userId
                           /\ keyValidated[s] /\ dbOpen[s] /\ hasHandlers[s]
    /\ ev.repeat => ev.out # {}

\* a transaction of one account reached its connection and not the validated,
\* database-open connection of another account
C15_Witness ==
  /\ ev.op = "notify" /\ Reached # {}
  /\ \E s \in DOMAIN sockState :
       /\ s \notin Reached /\ s \in registry /\ keyValidated[s] /\ dbOpen[s]
       /\ sockPair[s][1] # ev.body.userId

\* a transaction reached two connections of the account
C15_WitnessBoth == ev.op = "notify" /\ Cardinality(Reached) = 2

\* a repeated notify call delivered the transaction again
C15_WitnessTwice == ev.op = "notify" /\ ev.repeat /\ Reached # {}

\* an Unvalidated connection of the account was passed over
C15_WitnessUnvalidated ==
  /\ ev.op = "notify" /\ Reached # {}
  /\ \E s \in registry : /\ s \notin Reached /\ sockPair[s][1] = ev.body.userId
                          /\ ~keyValidated[s]

\* the action names the main channel recognizes
Recognized == ActionNames \ {"Frobnicate"}

\* the frame is a protocol error: oversized, not JSON, or of an unknown action
ProtocolError ==
  \/ ev.size > FOUR_HUNDRED_KB
  \/ ev.parsed = "invalid"
  \/ (ev.parsed = "object" /\ ev.action \notin Recognized)

\* C17, as stated: on the main channel every protocol error (an oversized frame,
\* a frame that is not JSON, a frame with an unrecognized action name) is
\* answered with a reply on the same socket, and the connection survives: it
\* stays registered and open with its validation state unchanged.
C17_AsStated ==
  (OnMessage /\ ProtocolError) =>
    /\ Cardinality(ev.out) = 1
    /\ \A o \in ev.out : o.to = ev.sock
    /\ registry = ev.regBefore /\ ev.sock \in registry
    /\ sockState[ev.sock] = "open"
    /\ keyValidated[ev.sock] = ev.kvBefore

\* the step is a main-channel request whose handling threw: reading its
\* arguments, or in the awaited collaborator call
HandlerFailed(e) ==
  /\ e.thrown
  /\ e.op = "complete" \/ (e.op = "message" /\ e.parsed = "object")

\* C18: a failure while handling a main-channel request sends no frame, neither
\* to the caller nor to anyone else, terminates no socket and changes no
\* connection's registration, handlers or validation state; the calls in flight
\* for other requests stay in flight, and the next request that is handled
\* completely is answered.
C18_FailureContained ==
  [][/\ HandlerFailed(ev') =>
          /\ ev'.out = {} /\ ev'.sent = <<>>
          /\ sockState' = sockState /\ registry' = registry
          /\ hasHandlers' = hasHandlers /\ keyValidated' = keyValidated
          /\ \A r \in BagToSet(pending) :
               CopiesIn(r, pending') >= CopiesIn(r, pending) - 1
          /\ BagCardinality(pending') >= BagCardinality(pending) - 1
     /\ (HandlerFailed(ev) /\ ev'.op = "complete" /\ ~ev'.thrown
          /\ ev'.stateBefore = "open") =>
          Cardinality(ev'.out) = 1]_vars

\* a call threw on a validated, open connection while a call of the other
\* connection was in flight; nothing was sent and both stay registered
C18_Witness ==
  /\ ev.op = "complete" /\ ev.thrown /\ ev.out = {}
  /\ keyValidated[ev.sock] /\ sockState[ev.sock] = "open"
  /\ \E r \in BagToSet(pending) : r.sock # ev.sock
  /\ registry = DOMAIN sockState

\* reading the arguments of a request without params threw
C18_WitnessArguments ==
  /\ ev.op = "message" /\ ev.thrown /\ ev.action = "Insert" /\ ev.kvBefore
  /\ ev.out = {} /\ sockState[ev.sock] = "open"

\* the comparisons of a connection's validation message that are under way
Comparing(s) ==
  {r \in BagToSet(pending) : r.sock = s /\ r.action = "ValidateKey" /\ r.args.server # {}}

\* C19, as stated: the server's validation message is compared with a value the
\* client supplied at most once per connection: no two comparisons of one
\* connection are under way at once, and once a comparison has completed (with
\* either outcome) no ValidateKey of that connection reaches the comparison
\* again.
C19_AsStated ==
  [][/\ \A s \in DOMAIN vmsg :
          Cardinality(Comparing(s)) <= 1 /\ \A r \in Comparing(s) : CopiesIn(r, pending) = 1
     /\ (ev.op = "complete" /\ ev.action = "ValidateKey") =>
          /\ Comparing(ev.sock) = {}
          /\ ~(ev'.op = "message" /\ ev'.sock = ev.sock /\ ev'.handler = "ValidateKey")]_vars

\* the frame is a structured response to the request (id, action)
Answers(o, s, id, action) ==
  o.to = s /\ o.requestId = id /\ o.route = action /\ o.route # "plain"

\* C20: a step that receives a main-channel frame sends at most one frame, and
\* none if it starts an asynchronous call, which then is the one call added to
\* those in flight; a step that completes a call sends at most one frame and
\* takes that call, and no other, out of those in flight; every structured
\* response carries the requestId and, as its route, the action of the request
\* received or of the call completed, whatever else is in flight.
C20_OneReply ==
  [][/\ ev'.op = "message" =>
          /\ Cardinality(ev'.out) <= 1
          /\ \A o \in ev'.out :
               o.status \in {"Message is too large", "Received unkown action"}
               \/ Answers(o, ev'.sock, ev'.requestId, ev'.action)
          /\ IF ev'.handler = "none" THEN pending' = pending
             ELSE /\ ev'.out = {}
                  /\ \E r \in BagToSet(pending') :
                       /\ r.sock = ev'.sock /\ r.requestId = ev'.requestId
                       /\ r.action = ev'.action
                       /\ pending' = pending (+) SetToBag({r})
     /\ ev'.op = "complete" =>
          /\ Cardinality(ev'.out) <= 1
          /\ \E r \in BagToSet(pending) :
               /\ r.sock = ev'.sock /\ r.requestId = ev'.requestId
               /\ r.action = ev'.action
               /\ pending' = pending (-) SetToBag({r})
               /\ \A o \in ev'.out : Answers(o, r.sock, r.requestId, r.action)
          /\ (ev'.stateBefore = "open" /\ ~ev'.thrown) => ev'.out # {}]_vars

\* an Insert was answered with its own requestId while a ValidateKey that the
\* connection had received earlier, under the other requestId, was in flight
C20_Witness ==
  /\ ev.op = "complete" /\ ev.action = "Insert" /\ ev.requestId = "r2"
  /\ ev.out = {Reply(ev, Response(ev.sock, "Insert", "Success"))}
  /\ \E r \in BagToSet(pending) :
       r.sock = ev.sock /\ r.action = "ValidateKey" /\ r.requestId = "r1"

\* the sockets of the main channel that connected and were refused
Refused == {s \in DOMAIN sockState : sockState[s] # "new" /\ ~hasHandlers[s] /\ fp[s] = "none"}

\* C21: a socket whose registration was refused stays open at the refusal and gets
\* no Connection push; a frame it sends gets no reply, starts no handler and
\* leaves its liveness flag as it was, a Pong included; the first sweep after it
\* connected probes it and the second terminates it, whatever it has sent; the
\* only frame it is ever sent is the sweep's Ping, never a transaction, and it is
\* never registered, validated or given the database.
C21_RefusedSocket ==
  /\ (ev.op = "connect" /\ ev.sock \in Refused) =>
       /\ sockState[ev.sock] = "open" /\ ev.out = {}
       /\ isAlive[ev.sock]
  /\ ev.op = "unheard" =>
       /\ ev.sock \in Refused
       /\ ev.out = {} /\ ev.handler = "none"
       /\ isAlive[ev.sock] <=> ev.sock \in ev.aliveBefore
       /\ BagCardinality(pending) = ev.pendingBefore
       /\ sockState[ev.sock] = "open"
  /\ ev.op = "sweep" =>
       \A s \in Refused \cap Swept :
         IF s \in ev.probedBefore \cup ev.heardBefore
           THEN s \in ev.terminated /\ sockState[s] = "closing"
           ELSE s \notin ev.terminated /\ Ping(s) \in ev.out /\ ~isAlive[s]
  /\ \A o \in ev.out : o.to \in Refused => o = Ping(o.to)
  /\ \A r \in BagToSet(pending) : r.sock \notin Refused
  /\ \A s \in Refused : s \notin registry /\ ~keyValidated[s] /\ ~dbOpen[s]
  /\ (ev.op \in {"message", "complete"}) => ev.sock \notin Refused

\* the second sweep terminated a refused socket that had sent a frame since the
\* first, while the device's registered connection was spared
C21_Witness ==
  /\ ev.op = "sweep"
  /\ \E s \in Refused : s \in ev.heardBefore /\ s \in ev.terminated
  /\ \E t \in registry : t \notin ev.terminated /\ Ping(t) \in ev.out

\* a Pong of a refused socket left its liveness flag cleared
C21_WitnessPong ==
  /\ ev.op = "unheard" /\ ev.action = "Pong" /\ ~isAlive[ev.sock]
  /\ sockState[ev.sock] = "open"

\* a transaction was pushed to the device's registered connection while the
\* refused socket was open, and not to the refused socket
C21_WitnessPush ==
  /\ ev.op = "notify" /\ ev.out # {}
  /\ \E s \in Refused : sockState[s] = "open" /\ s \notin Reached

====
